---- MODULE Spec2Model ----
(***************************************************************************)
(* CASPatriciaTrie: the write-buffering MKVS wrapper of                    *)
(* runtime/src/storage/mkvs/cas_patricia_trie/mod.rs.                      *)
(*                                                                         *)
(* The store is the three fields root_hash, pending_ops and enc_ctx (the   *)
(* field trie holds no state of its own beyond the CAS handle).  Every     *)
(* method of the MKVS impl is an operator over a store record `self`       *)
(* returning the new store and the returned value, and one action.         *)
(***************************************************************************)
EXTENDS Integers, Sequences, FiniteSets, TLC

VARIABLES
    root_hash,    \* CASPatriciaTrie.root_hash : Option<Hash>
    pending_ops,  \* CASPatriciaTrie.pending_ops : HashMap<Vec<u8>, Operation>
    enc_ctx,      \* CASPatriciaTrie.enc_ctx : Option<EncryptionContext>
    cas,          \* the entries of the CAS behind CASPatriciaTrie.trie (Arc<CAS>)
    last,         \* history: the last call, its arguments and its result
    steps,        \* history: number of calls made so far
    ctx_key,      \* history: the key bytes the caller's current context took
    written       \* history: <<ctx_key, key, value, ret>> of every insert issued

vars == <<root_hash, pending_ops, enc_ctx, cas, last, steps, ctx_key, written>>

----------------------------------------------------------------------------
(* Bounds *)

MaxSteps == 3

\* deoxysii::{KEY_SIZE, NONCE_SIZE}: 32 and 15 in the crate, scaled down;
\* only "shorter than", "equal to" and "longer than" matter to the code.
KEY_SIZE == 1
NONCE_SIZE == 1

Keys == {1, 2}
Values == {1, 2}
KeyBytes == {1, 2}
NonceBytes == {1}

----------------------------------------------------------------------------
(* Option<T>, byte strings *)

None == <<>>
Some(x) == <<x>>

\* A byte string: plaintext pt, or the ciphertext of pt under cipher key k
\* and nonce n (k = n = <<>> for plaintext).
Plain(x) == [k |-> <<>>, n |-> <<>>, pt |-> x]

RECURSIVE SeqsUpTo(_, _)
SeqsUpTo(S, n) ==
    IF n = 0 THEN {<<>>}
    ELSE LET shorter == SeqsUpTo(S, n - 1)
         IN  shorter \cup {Append(s, x) : s \in {t \in shorter : Len(t) = n - 1}, x \in S}

\* Arguments a caller passes to set_encryption_key: Option<&[u8]>.
RawKeys == {None} \cup {Some(s) : s \in SeqsUpTo(KeyBytes, KEY_SIZE + 1)}
RawNonces == {None} \cup {Some(s) : s \in SeqsUpTo(NonceBytes, NONCE_SIZE + 1)}

----------------------------------------------------------------------------
(* DeoxysII (interface of spec section 6): deterministic AEAD *)

Seal(ctx, bytes) == [k |-> ctx.mrae_ctx, n |-> ctx.nonce, pt |-> bytes.pt]

\* open(..).ok(): authentication fails unless sealed under this key and nonce.
Open(ctx, bytes) ==
    IF bytes.k = ctx.mrae_ctx /\ bytes.n = ctx.nonce
    THEN Some(Plain(bytes.pt))
    ELSE None

----------------------------------------------------------------------------
(* PatriciaTrie (spec section 4.3): canonical form makes the root digest a  *)
(* pure function of the key/value set, so a Hash is modelled by that set.   *)

EmptyHash == {}

Content(root) == IF root = None THEN {} ELSE root[1]

TrieGet(root, key) ==
    LET hit == {e \in Content(root) : e.key = key}
    IN  IF hit = {} THEN None ELSE Some((CHOOSE e \in hit : TRUE).value)

TrieInsert(root, key, value) ==
    {e \in Content(root) : e.key # key} \cup {[key |-> key, value |-> value]}

TrieRemove(root, key) ==
    LET rest == {e \in Content(root) : e.key # key}
    IN  IF rest = {} THEN None ELSE Some(rest)

\* The CAS entries of the trie under a root, each named by the digest of
\* its subtree: the root node and one leaf per key (a one-key trie is a
\* single leaf).  Entries are immutable: a digest names one content.
Nodes(root) ==
    IF root = None THEN {} ELSE {root[1]} \cup {{e} : e \in root[1]}

----------------------------------------------------------------------------
(* Operation, pending_ops *)

OpInsert(value) == [tag |-> "Insert", value |-> Some(value)]
OpRemove == [tag |-> "Remove", value |-> None]

NoPending == {}

PendingKeys(ops) == {p.key : p \in ops}
PendingGet(ops, key) == (CHOOSE p \in ops : p.key = key).op
\* A buffer that appends: an earlier operation of the key is retained.
PendingInsert_append(ops, key, op) == ops \cup {[key |-> key, op |-> op]}

\* HashMap::insert: replaces the entry of an equal key.
PendingInsert(ops, key, op) ==
    {p \in ops : p.key # key} \cup {[key |-> key, op |-> op]}

----------------------------------------------------------------------------
(* CASPatriciaTrie *)

\* new that drops its root_hash argument: every store opens empty.
new_ignoresRoot(root) ==
    [root_hash |-> None, pending_ops |-> NoPending, enc_ctx |-> None]

new(root) ==
    [root_hash   |-> IF root = EmptyHash THEN None ELSE Some(root),
     pending_ops |-> NoPending,
     enc_ctx     |-> None]

\* "Encrypt key using the encryption context, if it's present."
EncKey(self, key) ==
    IF self.enc_ctx # None THEN Seal(self.enc_ctx[1], key) ELSE key

\* get asking the trie first and the buffer only when the trie has nothing.
get_trieFirst(self, key) ==
    LET k == EncKey(self, key)
        found == TrieGet(self.root_hash, k)
        value == IF found # None THEN found
                 ELSE IF k \in PendingKeys(self.pending_ops)
                      THEN PendingGet(self.pending_ops, k).value
                      ELSE None
    IN  IF self.enc_ctx # None /\ value # None
        THEN Open(self.enc_ctx[1], value[1])
        ELSE value

get(self, key) ==
    LET k == EncKey(self, key)
        value == IF k \in PendingKeys(self.pending_ops)
                 THEN PendingGet(self.pending_ops, k).value
                 ELSE TrieGet(self.root_hash, k)
    IN  IF self.enc_ctx # None /\ value # None
        THEN Open(self.enc_ctx[1], value[1])
        ELSE value

\* insert returning get(key) evaluated after the buffer was updated.
insert_returnsNew(self, key, value) ==
    LET v == IF self.enc_ctx # None THEN Seal(self.enc_ctx[1], value) ELSE value
        k == EncKey(self, key)
        after == [self EXCEPT !.pending_ops = PendingInsert(@, k, OpInsert(v))]
    IN  [self |-> after, ret |-> get(after, key)]

\* insert with the buffer entry written by entry().or_insert(): a pending
\* operation of the key is kept.
insert_keepFirst(self, key, value) ==
    LET previous_value == get(self, key)
        v == IF self.enc_ctx # None THEN Seal(self.enc_ctx[1], value) ELSE value
        k == EncKey(self, key)
    IN  [self |-> [self EXCEPT !.pending_ops =
                      IF k \in PendingKeys(@) THEN @ ELSE PendingInsert(@, k, OpInsert(v))],
         ret  |-> previous_value]

insert(self, key, value) ==
    LET previous_value == get(self, key)
        v == IF self.enc_ctx # None THEN Seal(self.enc_ctx[1], value) ELSE value
        k == EncKey(self, key)
    IN  [self |-> [self EXCEPT !.pending_ops = PendingInsert(@, k, OpInsert(v))],
         ret  |-> previous_value]

\* remove applying trie.remove to the committed root at once.
remove_eager(self, key) ==
    LET previous_value == get(self, key)
        k == EncKey(self, key)
    IN  [self |-> [self EXCEPT !.root_hash = TrieRemove(@, k),
                               !.pending_ops = PendingInsert(@, k, OpRemove)],
         ret  |-> previous_value]

remove(self, key) ==
    LET previous_value == get(self, key)
        k == EncKey(self, key)
    IN  [self |-> [self EXCEPT !.pending_ops = PendingInsert(@, k, OpRemove)],
         ret  |-> previous_value]

\* The loop with the result of trie.remove discarded.
RECURSIVE Drain_dropRemove(_, _, _, _)
Drain_dropRemove(root, ops, order, n) ==
    IF n = 0 THEN root
    ELSE LET acc == Drain_dropRemove(root, ops, order, n - 1)
             op == PendingGet(ops, order[n])
         IN  IF op.tag = "Insert"
             THEN Some(TrieInsert(acc, order[n], op.value[1]))
             ELSE acc

\* The loop with every trie call made on the committed root instead of
\* the accumulating one.
Drain_fromBase(root, ops, order, n) ==
    IF n = 0 THEN root
    ELSE LET op == PendingGet(ops, order[n])
         IN  IF op.tag = "Insert"
             THEN Some(TrieInsert(root, order[n], op.value[1]))
             ELSE TrieRemove(root, order[n])

\* The loop starting at the second yielded entry.
RECURSIVE Drain_skipFirst(_, _, _, _)
Drain_skipFirst(root, ops, order, n) ==
    IF n <= 1 THEN root
    ELSE LET acc == Drain_skipFirst(root, ops, order, n - 1)
             op == PendingGet(ops, order[n])
         IN  IF op.tag = "Insert"
             THEN Some(TrieInsert(acc, order[n], op.value[1]))
             ELSE TrieRemove(acc, order[n])

\* The loop of commit after its first n iterations, draining in `order`.
RECURSIVE Drain(_, _, _, _)
Drain(root, ops, order, n) ==
    IF n = 0 THEN root
    ELSE LET acc == Drain(root, ops, order, n - 1)
             op == PendingGet(ops, order[n])
         IN  IF op.tag = "Insert"
             THEN Some(TrieInsert(acc, order[n], op.value[1]))
             ELSE TrieRemove(acc, order[n])

\* The entries the first n trie calls of the loop put into the CAS: every
\* call persists the nodes of the root it returns (puts are idempotent).
CommitPuts(self, order, n) ==
    UNION {Nodes(Drain(self.root_hash, self.pending_ops, order, i)) : i \in 1..n}

\* commit with self.root_hash assigned inside the loop, after every trie
\* call, so that a fault leaves the root of the calls made before it.
commit_rootInLoop(self, order, failAt) ==
    LET n == IF failAt = 0 THEN Len(order) ELSE failAt - 1
        root == Drain(self.root_hash, self.pending_ops, order, n)
    IN  [self |-> [self EXCEPT !.root_hash = root, !.pending_ops = NoPending],
         ret  |-> IF failAt = 0
                  THEN [status |-> "Ok", log |-> <<>>,
                        hash |-> IF root = None THEN EmptyHash ELSE root[1]]
                  ELSE [status |-> "panic", log |-> <<>>, hash |-> EmptyHash]]

\* commit with the accumulating root seeded from None.
commit_seedNone(self, order, failAt) ==
    IF failAt = 0
    THEN LET root == Drain(None, self.pending_ops, order, Len(order))
         IN  [self |-> [self EXCEPT !.root_hash = root, !.pending_ops = NoPending],
              ret  |-> [status |-> "Ok", log |-> <<>>,
                        hash |-> IF root = None THEN EmptyHash ELSE root[1]]]
    ELSE [self |-> [self EXCEPT !.pending_ops = NoPending],
          ret  |-> [status |-> "panic", log |-> <<>>, hash |-> EmptyHash]]

\* commit returning the digest of the root it started from.
commit_returnsOld(self, order, failAt) ==
    IF failAt = 0
    THEN LET root == Drain(self.root_hash, self.pending_ops, order, Len(order))
         IN  [self |-> [self EXCEPT !.root_hash = root, !.pending_ops = NoPending],
              ret  |-> [status |-> "Ok", log |-> <<>>,
                        hash |-> IF self.root_hash = None THEN EmptyHash
                                 ELSE self.root_hash[1]]]
    ELSE [self |-> [self EXCEPT !.pending_ops = NoPending],
          ret  |-> [status |-> "panic", log |-> <<>>, hash |-> EmptyHash]]

\* commit iterating over the buffer without draining it.
commit_noDrain(self, order, failAt) ==
    IF failAt = 0
    THEN LET root == Drain(self.root_hash, self.pending_ops, order, Len(order))
         IN  [self |-> [self EXCEPT !.root_hash = root],
              ret  |-> [status |-> "Ok", log |-> <<>>,
                        hash |-> IF root = None THEN EmptyHash ELSE root[1]]]
    ELSE [self |-> self,
          ret  |-> [status |-> "panic", log |-> <<>>, hash |-> EmptyHash]]

\* commit with the buffer drained in `order` (HashMap iteration order) and
\* a CAS fault in the failAt-th trie call (0: none).  The trie calls return
\* plain values, so a fault unwinds out of commit; the dropped Drain
\* iterator empties the buffer.
commit(self, order, failAt) ==
    IF failAt = 0
    THEN LET root == Drain(self.root_hash, self.pending_ops, order, Len(order))
         IN  [self |-> [self EXCEPT !.root_hash = root, !.pending_ops = NoPending],
              ret  |-> [status |-> "Ok", log |-> <<>>,
                        hash |-> IF root = None THEN EmptyHash ELSE root[1]]]
    ELSE [self |-> [self EXCEPT !.pending_ops = NoPending],
          ret  |-> [status |-> "panic", log |-> <<>>, hash |-> EmptyHash]]

\* rollback that leaves the buffer as it is.
rollback_noClear(self) == self

rollback(self) == [self EXCEPT !.pending_ops = NoPending]

\* set_encryption_key that seals the buffered operations anew under the
\* context it installs.
set_encryption_key_reseals(self, key, nonce) ==
    IF key = None
    THEN [self |-> [self EXCEPT !.enc_ctx = None], ret |-> "ok"]
    ELSE IF Len(key[1]) < KEY_SIZE \/ nonce = None
         THEN [self |-> self, ret |-> "panic"]
         ELSE IF Len(nonce[1]) < NONCE_SIZE
              THEN [self |-> self, ret |-> "panic"]
              ELSE LET ctx == [mrae_ctx |-> SubSeq(key[1], 1, KEY_SIZE),
                               nonce    |-> SubSeq(nonce[1], 1, NONCE_SIZE)]
                   IN  [self |-> [self EXCEPT
                                    !.enc_ctx = Some(ctx),
                                    !.pending_ops =
                                        {[key |-> Seal(ctx, p.key),
                                          op  |-> IF p.op.tag = "Insert"
                                                  THEN OpInsert(Seal(ctx, p.op.value[1]))
                                                  ELSE OpRemove] : p \in @}],
                        ret  |-> "ok"]

\* set_encryption_key with key.zeroize() moved before DeoxysII::new(&key).
set_encryption_key_zeroKey(self, key, nonce) ==
    IF key = None
    THEN [self |-> [self EXCEPT !.enc_ctx = None], ret |-> "ok"]
    ELSE IF Len(key[1]) < KEY_SIZE \/ nonce = None
         THEN [self |-> self, ret |-> "panic"]
         ELSE IF Len(nonce[1]) < NONCE_SIZE
              THEN [self |-> self, ret |-> "panic"]
              ELSE [self |-> [self EXCEPT !.enc_ctx =
                                 Some([mrae_ctx |-> [i \in 1..KEY_SIZE |-> 0],
                                       nonce    |-> SubSeq(nonce[1], 1, NONCE_SIZE)])],
                    ret  |-> "ok"]

\* set_encryption_key copying min(len, SIZE) bytes into the zeroed arrays: a
\* short key or nonce is padded with zeros instead of failing.
set_encryption_key_padShort(self, key, nonce) ==
    IF key = None
    THEN [self |-> [self EXCEPT !.enc_ctx = None], ret |-> "ok"]
    ELSE IF nonce = None
         THEN [self |-> self, ret |-> "panic"]
         ELSE [self |-> [self EXCEPT !.enc_ctx =
                            Some([mrae_ctx |-> [i \in 1..KEY_SIZE |->
                                     IF i <= Len(key[1]) THEN key[1][i] ELSE 0],
                                  nonce    |-> [i \in 1..NONCE_SIZE |->
                                     IF i <= Len(nonce[1]) THEN nonce[1][i] ELSE 0]])],
               ret  |-> "ok"]

set_encryption_key(self, key, nonce) ==
    IF key = None
    THEN [self |-> [self EXCEPT !.enc_ctx = None], ret |-> "ok"]
    ELSE IF Len(key[1]) < KEY_SIZE \/ nonce = None
         THEN [self |-> self, ret |-> "panic"]
         ELSE IF Len(nonce[1]) < NONCE_SIZE
              THEN [self |-> self, ret |-> "panic"]
              ELSE [self |-> [self EXCEPT !.enc_ctx =
                                 Some([mrae_ctx |-> SubSeq(key[1], 1, KEY_SIZE),
                                       nonce    |-> SubSeq(nonce[1], 1, NONCE_SIZE)])],
                    ret  |-> "ok"]

----------------------------------------------------------------------------
(* The state machine *)

Self == [root_hash |-> root_hash, pending_ops |-> pending_ops, enc_ctx |-> enc_ctx]

RECURSIVE Perms(_)
Perms(S) ==
    IF S = {} THEN {<<>>}
    ELSE UNION {{<<x>> \o p : p \in Perms(S \ {x})} : x \in S}

\* The orders in which HashMap::drain may yield the buffer.
Orders(self) == Perms(PendingKeys(self.pending_ops))

Call(op, args, ret) == [op |-> op, args |-> args, ret |-> ret]

Record(call) ==
    /\ steps < MaxSteps
    /\ steps' = steps + 1
    /\ last' = call

Becomes(self) ==
    /\ root_hash' = self.root_hash
    /\ pending_ops' = self.pending_ops
    /\ enc_ctx' = self.enc_ctx

\* Stores the runtime opens: on the empty root, or on a root committed before.
InitRoots == {EmptyHash, {[key |-> Plain(1), value |-> Plain(1)]}}

Init ==
    /\ \E root \in InitRoots :
          /\ root_hash = new(root).root_hash
          /\ pending_ops = new(root).pending_ops
          /\ enc_ctx = new(root).enc_ctx
          /\ written = {<<None, e.key.pt, e.value.pt, None>> : e \in root}
          /\ cas = Nodes(new(root).root_hash)
          /\ last = Call("new", <<root>>, "ok")
    /\ steps = 0
    /\ ctx_key = None

Get(key) ==
    /\ Record(Call("get", <<key>>, get(Self, Plain(key))))
    /\ UNCHANGED <<root_hash, pending_ops, enc_ctx, cas, ctx_key, written>>

Insert(key, value) ==
    LET r == insert(Self, Plain(key), Plain(value))
    IN  /\ Record(Call("insert", <<key, value>>, r.ret))
        /\ Becomes(r.self)
        /\ written' = written \cup {<<ctx_key, key, value, r.ret>>}
        /\ UNCHANGED <<cas, ctx_key>>

Remove(key) ==
    LET r == remove(Self, Plain(key))
    IN  /\ Record(Call("remove", <<key>>, r.ret))
        /\ Becomes(r.self)
        /\ UNCHANGED <<cas, ctx_key, written>>

Commit(order, failAt) ==
    LET r == commit(Self, order, failAt)
    IN  /\ Record(Call("commit", <<order, failAt, pending_ops, root_hash>>, r.ret))
        /\ Becomes(r.self)
        /\ cas' = cas \cup CommitPuts(Self, order,
                                      IF failAt = 0 THEN Len(order) ELSE failAt - 1)
        /\ UNCHANGED <<ctx_key, written>>

Rollback ==
    /\ Record(Call("rollback", <<>>, "ok"))
    /\ Becomes(rollback(Self))
    /\ UNCHANGED <<cas, ctx_key, written>>

\* The context key a successful set_encryption_key(key, _) gives the
\* caller: the first KEY_SIZE bytes of the key passed.
KeyOf(key) ==
    IF key = None THEN None
    ELSE Some(SubSeq(key[1], 1, IF Len(key[1]) < KEY_SIZE THEN Len(key[1]) ELSE KEY_SIZE))

SetEncryptionKey(key, nonce) ==
    LET r == set_encryption_key(Self, key, nonce)
    IN  /\ Record(Call("set_encryption_key", <<key, nonce>>, r.ret))
        /\ Becomes(r.self)
        /\ ctx_key' = IF r.ret = "ok" THEN KeyOf(key) ELSE ctx_key
        /\ UNCHANGED <<cas, written>>

Next ==
    \/ \E key \in Keys : Get(key)
    \/ \E key \in Keys, value \in Values : Insert(key, value)
    \/ \E key \in Keys : Remove(key)
    \/ \E order \in Orders(Self), failAt \in 0..Cardinality(pending_ops) :
          Commit(order, failAt)
    \/ Rollback
    \/ \E key \in RawKeys, nonce \in RawNonces : SetEncryptionKey(key, nonce)

Spec == Init /\ [][Next]_vars

----------------------------------------------------------------------------
(* Vocabulary of the properties *)

\* The step is a call of `op`.
Did(op) == steps' = steps + 1 /\ last'.op = op

CommitOk == last.op = "commit" /\ last.ret.status = "Ok"
\* The buffer the last commit drained, and the root it started from.
Drained == last.args[3]
Base == last.args[4]

\* The insert and remove calls a caller can issue.
Writes ==
    {[op |-> "insert", key |-> k, value |-> v] : k \in Keys, v \in Values}
        \cup {[op |-> "remove", key |-> k, value |-> 0] : k \in Keys}

Issue(self, w) ==
    IF w.op = "insert" THEN insert(self, Plain(w.key), Plain(w.value)).self
    ELSE remove(self, Plain(w.key)).self

Digest(root) == IF root = None THEN EmptyHash ELSE root[1]

\* What a reader sees of the committed root alone, under the context of self.
Committed(self, key) == get([self EXCEPT !.pending_ops = NoPending], key)

\* The store after a successful commit draining in `order`.
Committing(self, order) == commit(self, order, 0).self

\* The root a successful commit leaves, draining in one order.
AnyRoot(self) == Committing(self, CHOOSE order \in Orders(self) : TRUE).root_hash

----------------------------------------------------------------------------
\* C1: Round-trip.  From every reachable state, with the context left as it
\* is: insert(K, V) then a successful commit() makes get(K) return V, and
\* remove(K) then a successful commit() makes get(K) return None, whatever
\* the buffer and the committed root held for K, in every drain order.
C1_RoundTrip ==
    \A key \in Keys :
        /\ \A value \in Values :
              LET s == insert(Self, Plain(key), Plain(value)).self
              IN  \A order \in Orders(s) :
                     get(Committing(s, order), Plain(key)) = Some(Plain(value))
        /\ LET s == remove(Self, Plain(key)).self
           IN  \A order \in Orders(s) :
                  get(Committing(s, order), Plain(key)) = None

\* A commit has drained a Remove of key 1, which the store held on its
\* committed root, and an Insert of key 2; get reads neither and the other.
C1_Witness ==
    /\ CommitOk
    /\ <<None, 1, 1, None>> \in written
    /\ [key |-> Plain(1), op |-> OpRemove] \in Drained
    /\ [key |-> Plain(2), op |-> OpInsert(Plain(2))] \in Drained
    /\ get(Self, Plain(1)) = None
    /\ get(Self, Plain(2)) = Some(Plain(2))

\* C2: Buffer semantics.  From every reachable state, with the context left
\* as it is: insert(K, V1); insert(K, V2) returns V1 from the second insert,
\* and after a successful commit() get(K) returns V2.
C2_BufferSemantics ==
    \A key \in Keys, v1 \in Values, v2 \in Values :
        LET first == insert(Self, Plain(key), Plain(v1))
            second == insert(first.self, Plain(key), Plain(v2))
        IN  /\ second.ret = Some(Plain(v1))
            /\ \A order \in Orders(second.self) :
                   get(Committing(second.self, order), Plain(key)) = Some(Plain(v2))

\* Three calls on a store opened on the empty root: two inserts of one key,
\* the second returning the value of the first, and a commit, after which
\* get returns the second value.
C2_Witness ==
    /\ CommitOk
    /\ \E key \in Keys, v1 \in Values, v2 \in Values :
          /\ v1 # v2
          /\ written = {<<ctx_key, key, v1, None>>, <<ctx_key, key, v2, Some(Plain(v1))>>}
          /\ Cardinality(Drained) = 1
          /\ get(Self, Plain(key)) = Some(Plain(v2))

\* C3: Rollback.  A rollback() leaves the buffer empty and the committed
\* root as it was, after it get(K) is what the committed root holds for K,
\* and on an empty buffer it changes nothing of the store.
C3_Rollback ==
    [][Did("rollback") =>
          /\ pending_ops' = NoPending
          /\ root_hash' = root_hash
          /\ \A key \in Keys : get(Self', Plain(key)) = Committed(Self, Plain(key))
          /\ (pending_ops = NoPending => Self' = Self)]_vars

\* A rollback has discarded a buffer: key 1 is again read from the root.
C3_Witness ==
    /\ last.op = "rollback"
    /\ <<None, 1, 2, Some(Plain(1))>> \in written
    /\ pending_ops = NoPending
    /\ get(Self, Plain(1)) = Some(Plain(1))

\* C4: Empty trie.  With no root and an empty buffer get(K) is None for
\* every key, and a commit() on an empty buffer succeeds, leaves the
\* committed root as it was and returns its digest.
C4_EmptyTrie ==
    /\ [](root_hash = None /\ pending_ops = NoPending =>
             \A key \in Keys : get(Self, Plain(key)) = None)
    /\ [][Did("commit") /\ pending_ops = NoPending =>
             /\ root_hash' = root_hash
             /\ last'.ret.status = "Ok"
             /\ last'.ret.hash = Digest(root_hash)]_vars

\* A commit on an empty buffer has returned the digest of a non-empty root.
C4_Witness ==
    /\ CommitOk
    /\ Drained = NoPending
    /\ root_hash # None
    /\ last.ret.hash = root_hash[1]

\* C5: Determinism.  In every reachable state the root a successful commit
\* leaves is the same for every drain order; and it is the same whether two
\* calls on different keys are issued in one order or the other, and
\* whether or not a call was preceded by another on its key (the final
\* operation of each key decides).
C5_Determinism ==
    /\ \A order \in Orders(Self) : Committing(Self, order).root_hash = AnyRoot(Self)
    /\ \A pair \in {<<Issue(Issue(Self, w1), w2),
                       IF w1.key = w2.key THEN Issue(Self, w2)
                       ELSE Issue(Issue(Self, w2), w1)>> : w1 \in Writes, w2 \in Writes} :
          LET root == AnyRoot(pair[2])
          IN  \A order \in Orders(pair[1]) :
                 Committing(pair[1], order).root_hash = root

\* A commit has drained an Insert and a Remove onto a non-empty root, and
\* either drain order leads to the root the store now holds.
C5_Witness ==
    /\ CommitOk
    /\ Base # None
    /\ \E p \in Drained, q \in Drained :
          /\ p.op.tag = "Insert" /\ q.op = OpRemove
          /\ TrieGet(Base, q.key) # None
          /\ TrieGet(Base, p.key) = None
    /\ Cardinality(Perms(PendingKeys(Drained))) >= 2
    /\ \A order \in Perms(PendingKeys(Drained)) :
          Drain(Base, Drained, order, Len(order)) = root_hash

\* get(K) on `self`, read under the context key ck, is None or a value that
\* was inserted for K under that same key.
ReadsOwn(self, ck, key) ==
    LET value == get(self, Plain(key))
    IN  \/ value = None
        \/ \E w \in written : w[1] = ck /\ w[2] = key /\ value = Some(Plain(w[3]))

\* C6: Wrong-key reads.  Under an active context get(K) returns None or a
\* value inserted for K under the same key, in every reachable state and
\* right after every switch to another context: what was inserted, buffered
\* or committed, under a key A reads as None under a key B # A.
C6_WrongKeyReads ==
    \A key \in Keys :
        /\ enc_ctx # None => ReadsOwn(Self, ctx_key, key)
        /\ \A k \in RawKeys, n \in RawNonces :
              LET r == set_encryption_key(Self, k, n)
              IN  r.ret = "ok" /\ k # None => ReadsOwn(r.self, KeyOf(k), key)

\* Key 1 was inserted under one key and is pending; the context now has
\* another key and get reads None for it.
C6_Witness ==
    /\ last.op = "set_encryption_key" /\ last.ret = "ok"
    /\ enc_ctx # None
    /\ \E w \in written : w[1] # None /\ w[1] # ctx_key /\ w[2] = 1
    /\ pending_ops # NoPending
    /\ \A key \in Keys : get(Self, Plain(key)) = None

\* C7: a commit() that fails leaves the committed root as it was.
C7_CommitAllOrNothing ==
    [][Did("commit") /\ last'.ret.status # "Ok" => root_hash' = root_hash]_vars

\* A commit has failed in its second trie call, after a first one that
\* led to another root; the store holds the root the commit started from.
C7_Witness ==
    /\ last.op = "commit" /\ last.ret.status = "panic"
    /\ last.args[2] = 2
    /\ Drain(Base, Drained, last.args[1], 1) # Base
    /\ root_hash = Base

\* C8: a commit() that hits a CAS fault returns an error.
C8_FaultIsError ==
    last.op = "commit" /\ last.args[2] # 0 => last.ret.status = "Err"

\* C9: the change-log a successful commit() returns has one entry for every
\* pending operation it drained.
C9_ChangeLog ==
    CommitOk => Len(last.ret.log) = Cardinality(Drained)

\* A key or a nonce shorter than the fixed size, or a key without a nonce.
TooShort(key, nonce) ==
    /\ key # None
    /\ \/ Len(key[1]) < KEY_SIZE
       \/ nonce = None
       \/ Len(nonce[1]) < NONCE_SIZE

\* A key or a nonce longer than the fixed size, neither being too short.
TooLong(key, nonce) ==
    /\ key # None /\ ~TooShort(key, nonce)
    /\ (Len(key[1]) > KEY_SIZE \/ Len(nonce[1]) > NONCE_SIZE)

\* C10 as stated: a key or nonce of any wrong size, or a key without a
\* nonce, fails and installs no context.
C10_WrongSizeFails ==
    [][Did("set_encryption_key")
          /\ (TooShort(last'.args[1], last'.args[2]) \/ TooLong(last'.args[1], last'.args[2]))
       => last'.ret = "panic" /\ enc_ctx' = enc_ctx]_vars

\* C10 amended: a key or nonce that is too short, or a key without a nonce,
\* fails and leaves the context as it was; a key or nonce that is too long
\* is accepted and its first KEY_SIZE / NONCE_SIZE bytes are installed.
C10_ShortFailsLongTruncated ==
    [][Did("set_encryption_key") =>
          LET key == last'.args[1]
              nonce == last'.args[2]
          IN  /\ TooShort(key, nonce) =>
                    last'.ret = "panic" /\ enc_ctx' = enc_ctx
              /\ TooLong(key, nonce) =>
                    /\ last'.ret = "ok"
                    /\ enc_ctx' = Some([mrae_ctx |-> SubSeq(key[1], 1, KEY_SIZE),
                                         nonce |-> SubSeq(nonce[1], 1, NONCE_SIZE)])]_vars

\* A call with a key and a nonce both too long has installed a context.
C10_Witness ==
    /\ last.op = "set_encryption_key"
    /\ last.args[1] # None /\ last.args[2] # None
    /\ Len(last.args[1][1]) > KEY_SIZE /\ Len(last.args[2][1]) > NONCE_SIZE
    /\ last.ret = "ok"
    /\ enc_ctx = Some([mrae_ctx |-> SubSeq(last.args[1][1], 1, KEY_SIZE),
                        nonce |-> SubSeq(last.args[2][1], 1, NONCE_SIZE)])

\* The digest a store returns from its first commit when, opened on the
\* empty root under the context ctx, it inserts (key, value) and commits.
FirstDigest(ctx, key, value) ==
    LET s == insert([new(EmptyHash) EXCEPT !.enc_ctx = ctx], Plain(key), Plain(value)).self
    IN  commit(s, CHOOSE order \in Orders(s) : TRUE, 0).ret.hash

\* C11: Encryption masking of roots.  A store under the context of this
\* one and a store under any context with another key, both starting from
\* the empty root, inserting the same key and value and committing, get
\* different root digests.
C11_MaskedRoots ==
    enc_ctx # None =>
        \A k \in RawKeys, n \in RawNonces :
            LET other == set_encryption_key(new(EmptyHash), k, n)
            IN  other.ret = "ok" /\ k # None /\ KeyOf(k) # ctx_key =>
                    \A key \in Keys, value \in Values :
                        FirstDigest(enc_ctx, key, value)
                            # FirstDigest(other.self.enc_ctx, key, value)

\* This store, opened on the empty root, has inserted one key under its
\* context and committed; a context with another key exists, and the
\* digest returned is the one compared.
C11_Witness ==
    /\ CommitOk /\ enc_ctx # None /\ Base = None
    /\ \E key \in Keys, value \in Values :
          /\ written = {<<ctx_key, key, value, None>>}
          /\ last.ret.hash = FirstDigest(enc_ctx, key, value)
    /\ \E k \in RawKeys : k # None /\ Len(k[1]) = KEY_SIZE /\ KeyOf(k) # ctx_key

\* A store opened by new on the committed root of self, with the context
\* of self installed.
Reopen(self) == [new(Digest(self.root_hash)) EXCEPT !.enc_ctx = self.enc_ctx]

\* get(key) of a store with an empty buffer over the CAS entries c: a
\* missing entry of its root is a backend fault, not a value.
ReadVia(c, self, key) ==
    IF Nodes(self.root_hash) \subseteq c
    THEN [ok |-> TRUE, value |-> get(self, key)]
    ELSE [ok |-> FALSE, value |-> None]

Decrypt(self, value) ==
    IF self.enc_ctx # None /\ value # None
    THEN Open(self.enc_ctx[1], value[1])
    ELSE value

\* C13: get(K) resolves the buffer before the trie: a pending Insert(V) of
\* the (possibly encrypted) key gives V, a pending Remove gives None even
\* when the committed root holds the key, and only without a pending
\* operation the value of the trie under the committed root is returned.
C13_BufferBeforeTrie ==
    \A key \in Keys :
        LET k == EncKey(Self, Plain(key))
            hit == {p \in pending_ops : p.key = k}
            value == get(Self, Plain(key))
        IN  /\ \A p \in hit : p.op.tag = "Insert" =>
                   /\ value = Decrypt(Self, p.op.value)
                   /\ value = Some(Plain(p.op.value[1].pt))
            /\ \A p \in hit : p.op.tag = "Remove" => value = None
            /\ hit = {} => value = Decrypt(Self, TrieGet(root_hash, k))

\* Key 1 is under the committed root and has a pending Remove: get is None.
C13_Witness ==
    /\ TrieGet(root_hash, EncKey(Self, Plain(1))) # None
    /\ [key |-> EncKey(Self, Plain(1)), op |-> OpRemove] \in pending_ops
    /\ get(Self, Plain(1)) = None
    /\ last.op = "remove"

\* C14: insert(K, V) and remove(K) return what get(K) returned in the state
\* right before the call.
C14_PreviousValue ==
    [][(Did("insert") \/ Did("remove")) =>
          last'.ret = get(Self, Plain(last'.args[1]))]_vars

\* An insert over a pending Insert of the key has returned the pending
\* value, which is not the value it wrote.
C14_Witness ==
    /\ last.op = "insert"
    /\ last.ret = Some(Plain(1))
    /\ last.args = <<2, 2>>
    /\ TrieGet(root_hash, Plain(2)) = None
    /\ get(Self, Plain(2)) = Some(Plain(2))

\* C15: insert(K, V) and remove(K) change only the buffer entry of K: the
\* committed root, the CAS, the context and the pending operations of the
\* other keys stay; and only commit() changes the committed root.
C15_WritesOnlyBuffer ==
    [][/\ (Did("insert") \/ Did("remove")) =>
             LET k == EncKey(Self, Plain(last'.args[1]))
             IN  /\ root_hash' = root_hash
                 /\ cas' = cas
                 /\ enc_ctx' = enc_ctx
                 /\ {p \in pending_ops' : p.key # k} = {p \in pending_ops : p.key # k}
                 /\ k \in PendingKeys(pending_ops')
       /\ root_hash' # root_hash => Did("commit")]_vars

\* A remove of key 1, held under the committed root, next to a pending
\* operation of key 2: the root still holds key 1 and key 2 is pending.
C15_Witness ==
    /\ last.op = "remove" /\ last.args = <<1>>
    /\ TrieGet(root_hash, Plain(1)) = Some(Plain(1))
    /\ Plain(2) \in PendingKeys(pending_ops)
    /\ [key |-> Plain(1), op |-> OpRemove] \in pending_ops
    /\ Nodes(root_hash) = cas

\* The operations of buffer `ops` in the order `order` yields them.
Yielded(ops, order) ==
    [i \in 1..Len(order) |-> [key |-> order[i], op |-> PendingGet(ops, order[i])]]

\* One operation after another, front to back, on an accumulating root.
RECURSIVE ApplyAll(_, _)
ApplyAll(root, seq) ==
    IF seq = <<>> THEN root
    ELSE LET e == Head(seq)
             next == IF e.op.tag = "Insert"
                     THEN Some(TrieInsert(root, e.key, e.op.value[1]))
                     ELSE TrieRemove(root, e.key)
         IN  ApplyAll(next, Tail(seq))

\* C16: after every successful commit() the buffer is empty and the
\* committed root is the result of applying each drained operation, one
\* after another, to an accumulating root seeded from the previous
\* committed root; a second commit() right after returns the same digest.
C16_CommitResult ==
    [][Did("commit") /\ last'.ret.status = "Ok" =>
          /\ pending_ops' = NoPending
          /\ root_hash' = ApplyAll(root_hash, Yielded(pending_ops, last'.args[1]))
          /\ \A order \in Orders(Self') :
                 LET again == commit(Self', order, 0)
                 IN  /\ again.ret.status = "Ok"
                     /\ again.ret.hash = last'.ret.hash
                     /\ again.self = Self']_vars

\* A successful commit has drained an Insert and a Remove and left a root
\* that is neither the previous one nor empty.
C16_Witness ==
    /\ CommitOk
    /\ \E p \in Drained, q \in Drained : p.op.tag = "Insert" /\ q.op.tag = "Remove"
    /\ root_hash # Base /\ root_hash # None /\ Base # None
    /\ pending_ops = NoPending

\* The operation insert or remove, called with `args`, puts into the buffer.
IssuedOp(self, op, args) ==
    IF op = "insert"
    THEN OpInsert(IF self.enc_ctx # None
                  THEN Seal(self.enc_ctx[1], Plain(args[2]))
                  ELSE Plain(args[2]))
    ELSE OpRemove

\* C17: last write wins per key.  The buffer holds at most one pending
\* operation per (possibly encrypted) key, and it is the most recent one
\* issued since the last commit/rollback; insert(K, V) then remove(K) then
\* commit() leaves K absent, and remove(K) then insert(K, V) then commit()
\* leaves get(K) = V, whatever the committed root and the buffer hold for K.
C17_LastWriteWins ==
    /\ [](\A p \in pending_ops, q \in pending_ops : p.key = q.key => p = q)
    /\ [][(Did("insert") \/ Did("remove")) =>
              LET k == EncKey(Self, Plain(last'.args[1]))
              IN  {p \in pending_ops' : p.key = k}
                      = {[key |-> k, op |-> IssuedOp(Self, last'.op, last'.args)]}]_vars
    /\ [][(Did("commit") \/ Did("rollback")) => pending_ops' = NoPending]_vars
    /\ [](\A key \in Keys, value \in Values :
             LET k == EncKey(Self, Plain(key))
                 gone == remove(insert(Self, Plain(key), Plain(value)).self, Plain(key)).self
                 back == insert(remove(Self, Plain(key)).self, Plain(key), Plain(value)).self
             IN  /\ \A order \in Orders(gone) :
                        LET after == Committing(gone, order)
                        IN  /\ get(after, Plain(key)) = None
                            /\ TrieGet(after.root_hash, k) = None
                 /\ \A order \in Orders(back) :
                        get(Committing(back, order), Plain(key)) = Some(Plain(value)))

\* Key 1 is under the committed root, was removed and then inserted anew:
\* the buffer holds the Insert alone.
C17_Witness ==
    /\ last.op = "insert" /\ last.args = <<1, 2>> /\ last.ret = None
    /\ TrieGet(root_hash, Plain(1)) = Some(Plain(1))
    /\ pending_ops = {[key |-> Plain(1), op |-> OpInsert(Plain(2))]}

\* C18: set_encryption_key changes only the encryption context.  With key
\* None the context is cleared; with a key, a call that returns has installed
\* the context of that key and nonce, and a call that fails has left the
\* context as it was.  In every case the buffer, the committed root and the
\* CAS are exactly as before, and a later commit() applies the buffered
\* operations unchanged: same operations, same resulting root.
C18_OnlyTheContext ==
    [][Did("set_encryption_key") =>
          LET key == last'.args[1]
              nonce == last'.args[2]
          IN  /\ pending_ops' = pending_ops
              /\ root_hash' = root_hash
              /\ cas' = cas
              /\ key = None => last'.ret = "ok" /\ enc_ctx' = None
              /\ key # None /\ last'.ret = "ok" =>
                     enc_ctx' = Some([mrae_ctx |-> SubSeq(key[1], 1, KEY_SIZE),
                                      nonce    |-> SubSeq(nonce[1], 1, NONCE_SIZE)])
              /\ last'.ret # "ok" => enc_ctx' = enc_ctx
              /\ \A order \in Orders(Self) :
                     /\ order \in Orders(Self')
                     /\ Yielded(pending_ops', order) = Yielded(pending_ops, order)
                     /\ Committing(Self', order).root_hash
                            = Committing(Self, order).root_hash]_vars

\* A context was installed over a plaintext committed entry and a plaintext
\* buffered Insert: both are as they were.
C18_Witness ==
    /\ last.op = "set_encryption_key" /\ last.ret = "ok"
    /\ enc_ctx # None
    /\ pending_ops = {[key |-> Plain(2), op |-> OpInsert(Plain(1))]}
    /\ root_hash = Some({[key |-> Plain(1), value |-> Plain(1)]})

\* The store right before the last commit, under the present context.
BeforeCommit == [root_hash |-> Base, pending_ops |-> Drained, enc_ctx |-> enc_ctx]

\* C19: commit() preserves the logical view.  With the context unchanged,
\* get(K) right after a successful commit() equals get(K) right before it,
\* for every key K: on every commit step taken, and for the commit that
\* could be taken from any reachable state, in every drain order.
C19_CommitPreservesView ==
    /\ [][Did("commit") /\ last'.ret.status = "Ok" =>
              \A key \in Keys : get(Self', Plain(key)) = get(Self, Plain(key))]_vars
    /\ [](\A order \in Orders(Self) : \A key \in Keys :
             get(Committing(Self, order), Plain(key)) = get(Self, Plain(key)))

\* A successful commit has moved a Remove of key 1, which the previous root
\* held, and an Insert of key 2 into the trie: readers see key 1 absent and
\* key 2 present, as before the commit.
C19_Witness ==
    /\ CommitOk
    /\ [key |-> Plain(1), op |-> OpRemove] \in Drained
    /\ \E p \in Drained : p.key = Plain(2) /\ p.op.tag = "Insert"
    /\ TrieGet(Base, Plain(1)) # None
    /\ get(Self, Plain(1)) = None /\ get(Self, Plain(2)) # None
    /\ \A key \in Keys : get(Self, Plain(key)) = get(BeforeCommit, Plain(key))

\* The digest `hash` names the committed root of `self`, and a store opened
\* from it over the CAS `c`, given the context of self, reads what self reads.
Identifies(hash, self, c) ==
    /\ (self.root_hash = None => hash = EmptyHash)
    /\ (self.root_hash # None => self.root_hash = Some(hash))
    /\ (hash = EmptyHash <=> self.root_hash = None)
    /\ new(hash).root_hash = self.root_hash
    /\ \A key \in Keys :
           ReadVia(c, [new(hash) EXCEPT !.enc_ctx = self.enc_ctx], Plain(key))
               = [ok |-> TRUE, value |-> get(self, Plain(key))]

\* C20: the digest returned by commit() identifies the committed state.  It
\* equals the committed root, it is the empty digest exactly when the
\* committed root is None, and a new store constructed from it over the same
\* CAS (the empty digest mapping back to None) returns for every key what
\* the committing store returns with its buffer empty, under the same
\* context: on every commit step taken, and for the commit that could be
\* taken from any reachable state, in every drain order.
C20_DigestIdentifiesState ==
    /\ [][Did("commit") /\ last'.ret.status = "Ok" =>
              pending_ops' = NoPending /\ Identifies(last'.ret.hash, Self', cas')]_vars
    /\ [](\A order \in Orders(Self) :
             LET r == commit(Self, order, 0)
             IN  /\ r.self.pending_ops = NoPending
                 /\ Identifies(r.ret.hash, r.self,
                               cas \cup CommitPuts(Self, order, Len(order))))

\* A successful commit has removed the only key of the previous root: it has
\* returned the empty digest, and a store opened from it is empty.
C20_Witness ==
    /\ CommitOk
    /\ Base # None /\ Drained # NoPending
    /\ root_hash = None
    /\ last.ret.hash = EmptyHash
    /\ new(last.ret.hash).root_hash = None
    /\ \A key \in Keys : get(Reopen(Self), Plain(key)) = None

====
